---------------------------- MODULE Spec2Model ----------------------------
(***************************************************************************)
(* The proverb-manager agent: the POST / endpoint (app/main.py) and the    *)
(* tool functions registered on the agent (app/agent.py).                  *)
(*                                                                         *)
(* Python objects are modelled by reference.  A list object lives in the   *)
(* heap `lists` under an identifier; the Deps object of a request holds    *)
(* the identifier of its proverb list, and a StateSnapshotEvent holds a    *)
(* reference to the Deps object it was built from (snapshot=ctx.deps.state *)
(* passes the object, not a copy).                                         *)
(*                                                                         *)
(* Numbers with a fractional part are kept in tenths: 51.1 is 511, -0.1 is *)
(* -1, a temperatureApparent of 17.6 is 176.                               *)
(***************************************************************************)
EXTENDS Integers, Sequences, FiniteSets, TLC

VARIABLES
    env,      \* the three provider keys read from the environment at import
    deps,     \* request -> StateDeps(Deps()) of the running request, or NoDeps
    lists,    \* heap of list objects: identifier -> sequence of proverbs
    events,   \* request -> StateSnapshotEvents returned so far, in order
    ret,      \* what the most recent tool call returned or raised
    hist,     \* history: request -> add_proverbs/set_proverbs calls so far
    shown     \* history: request -> what each returned event showed then

vars == <<env, deps, lists, events, ret, hist, shown>>

---------------------------------------------------------------------------
(* Bounds and input sets                                                   *)

\* add_proverbs / set_proverbs calls one request makes
MaxCalls == 2

\* the requests in flight at the same time
Requests == {1, 2}

\* the lists a caller passes to add_proverbs: one proverb, which repeated
\* makes a duplicate, and a list that holds the empty string
AddArgs == {<<"a">>, <<"", "a">>}

\* the lists a caller passes to set_proverbs: those, and the empty list
SetArgs == AddArgs \cup {<< >>}

None == "None"
ApiKey == "key"
NoDeps == [none |-> TRUE]
NoRet == [tool |-> "none"]

---------------------------------------------------------------------------
(* State: class Deps and the fresh copy made per request                   *)

Running(r) == deps[r] # NoDeps

\* the list objects the states of the running requests other than r refer to
OtherLists(r) == {deps[q].state.proverbs : q \in {p \in Requests \ {r} : Running(p)}}

\* a list object every Deps instance would share (a mutable class default)
SharedDefault(heap) == 1

\* Field(default_factory=list): each Deps() gets a list object of its own
default_factory(heap) == CHOOSE id \in 1..(Cardinality(DOMAIN heap) + 1) : id \notin DOMAIN heap

\* Deps(): the field defaults; the keys are the values os.getenv gave at import
Deps(heap) ==
    [proverbs |-> default_factory(heap),
     httpx_client |-> "AsyncClient",
     weather_api_key |-> env.weather_api_key,
     geo_api_key |-> env.geo_api_key,
     tavily_api_key |-> env.tavily_api_key,
     tavily_client |-> "AsyncTavilyClient"]

\* StateDeps(state): the dataclass of pydantic_ai.ag_ui that carries the state
StateDeps(state) == [state |-> state]

\* dataclasses.replace(obj) with no changes: a new StateDeps with the same fields
replace(obj) == obj

\* the heap without the list objects nothing refers to any more
Collect(heap, live) == [id \in (DOMAIN heap) \cap live |-> heap[id]]

\* the proverb list of request r, read through its state
Proverbs(r) == lists[deps[r].state.proverbs]

\* what a snapshot shows when it is read: the Deps object it refers to
Payload(ev) ==
    LET s == deps[ev.snapshot].state
    IN  [proverbs |-> lists[s.proverbs],
         httpx_client |-> s.httpx_client,
         weather_api_key |-> s.weather_api_key,
         geo_api_key |-> s.geo_api_key,
         tavily_api_key |-> s.tavily_api_key,
         tavily_client |-> s.tavily_client]

\* StateSnapshotEvent(type=EventType.STATE_SNAPSHOT, snapshot=ctx.deps.state)
StateSnapshotEvent(r) == [type |-> "STATE_SNAPSHOT", snapshot |-> r]

KeyValues == {None, ApiKey}

Init ==
    /\ env \in [weather_api_key : KeyValues, geo_api_key : KeyValues,
                tavily_api_key : KeyValues]
    /\ deps = [r \in Requests |-> NoDeps]
    /\ lists = << >>
    /\ events = [r \in Requests |-> << >>]
    /\ ret = NoRet
    /\ hist = [r \in Requests |-> << >>]
    /\ shown = [r \in Requests |-> << >>]

---------------------------------------------------------------------------
(* Endpoint: POST /                                                        *)

\* run_agent, up to the hand-over to the adapter: a fresh Deps for the request
run_agent(r) ==
    /\ ~Running(r)
    /\ LET d == replace(StateDeps(Deps(lists)))
       IN  /\ deps' = [deps EXCEPT ![r] = d]
           /\ lists' = [id \in DOMAIN lists \cup {d.state.proverbs} |->
                            IF id = d.state.proverbs THEN << >> ELSE lists[id]]
    /\ events' = [events EXCEPT ![r] = << >>]
    /\ hist' = [hist EXCEPT ![r] = << >>]
    /\ shown' = [shown EXCEPT ![r] = << >>]
    /\ UNCHANGED <<env, ret>>

\* the adapter's response is complete: the request's state is dropped
request_done(r) ==
    /\ Running(r)
    /\ deps' = [deps EXCEPT ![r] = NoDeps]
    /\ lists' = Collect(lists, OtherLists(r))
    /\ events' = [events EXCEPT ![r] = << >>]
    /\ hist' = [hist EXCEPT ![r] = << >>]
    /\ shown' = [shown EXCEPT ![r] = << >>]
    /\ ret' = IF ret.tool # "none" /\ ret.req = r THEN NoRet ELSE ret
    /\ UNCHANGED env

---------------------------------------------------------------------------
(* Tools: the proverb list                                                 *)

\* get_proverbs with the list sorted in place before it is returned
get_proverbs_sorted(r) ==
    /\ Running(r)
    /\ ret' = [req |-> r, tool |-> "get_proverbs", outcome |-> "return",
               value |-> deps[r].state.proverbs]
    /\ lists' = [lists EXCEPT ![deps[r].state.proverbs] =
                     SelectSeq(@, LAMBDA x : x = "") \o SelectSeq(@, LAMBDA x : x # "")]
    /\ UNCHANGED <<env, deps, events, hist, shown>>

\* get_proverbs: returns ctx.deps.state.proverbs, the list object itself
get_proverbs(r) ==
    /\ Running(r)
    /\ ret' = [req |-> r, tool |-> "get_proverbs", outcome |-> "return",
               value |-> deps[r].state.proverbs]
    /\ UNCHANGED <<env, deps, lists, events, hist, shown>>

\* list.extend put at the wrong end
ExtendFront(old, proverbs) == proverbs \o old

\* list.extend(proverbs): the list object grows in place, at its end
Extend(old, proverbs) == old \o proverbs

\* add_proverbs: extends the state's list in place and returns a snapshot
add_proverbs(r, proverbs) ==
    /\ Running(r)
    /\ Len(hist[r]) < MaxCalls
    /\ deps' = deps
    /\ lists' = [lists EXCEPT ![deps[r].state.proverbs] = Extend(@, proverbs)]
    /\ ret' = [req |-> r, tool |-> "add_proverbs", outcome |-> "return",
               value |-> StateSnapshotEvent(r)]
    /\ events' = [events EXCEPT ![r] = Append(@, StateSnapshotEvent(r))]
    /\ hist' = [hist EXCEPT ![r] = Append(@, [op |-> "add", arg |-> proverbs])]
    /\ shown' = [shown EXCEPT ![r] = Append(@, Proverbs(r)')]
    /\ UNCHANGED env

\* set_proverbs: binds the state's field to the argument list object (a new
\* object made from the tool call's arguments) and returns a snapshot
set_proverbs(r, proverbs) ==
    /\ Running(r)
    /\ Len(hist[r]) < MaxCalls
    /\ LET kept == Collect(lists, OtherLists(r))
           arg == default_factory(kept)
       IN  /\ deps' = [deps EXCEPT ![r].state.proverbs = arg]
           /\ lists' = [id \in DOMAIN kept \cup {arg} |->
                            IF id = arg THEN proverbs ELSE kept[id]]
    /\ ret' = [req |-> r, tool |-> "set_proverbs", outcome |-> "return",
               value |-> StateSnapshotEvent(r)]
    /\ events' = [events EXCEPT ![r] = Append(@, StateSnapshotEvent(r))]
    /\ hist' = [hist EXCEPT ![r] = Append(@, [op |-> "set", arg |-> proverbs])]
    /\ shown' = [shown EXCEPT ![r] = Append(@, Proverbs(r)')]
    /\ UNCHANGED env

---------------------------------------------------------------------------
(* Tools: geocoding                                                        *)

\* Response.is_success, which raise_for_status tests: a 2xx status
is_success(status) == 200 <= status /\ status <= 299

HexDigits == <<"0", "1", "2", "3", "4", "5", "6", "7", "8", "9",
               "A", "B", "C", "D", "E", "F">>

\* the code points of the characters a location is written with here
Ord(c) ==
    CASE c = " " -> 32
      [] c = "/" -> 47
      [] c = "?" -> 63
      [] c = "a" -> 97
      [] c = "b" -> 98

\* urllib.parse.quote: letters and "/" are kept, every other byte becomes %XX
quote(text) ==
    LET enc(c) == IF c \in {"a", "b", "/"}
                  THEN <<c>>
                  ELSE <<"%", HexDigits[(Ord(c) \div 16) + 1], HexDigits[(Ord(c) % 16) + 1]>>
        F[i \in 0..Len(text)] == IF i = 0 THEN << >> ELSE F[i - 1] \o enc(text[i])
    IN  F[Len(text)]

\* the (lat, lng) unpacking with the two names exchanged
coordinates_swapped(center) == [lat |-> center[1], lng |-> center[2]]

\* lng, lat = features[0]["center"]; return {"lat": lat, "lng": lng}
coordinates(center) == [lat |-> center[2], lng |-> center[1]]

\* the body of get_lat_lng: what it asks the provider, and how it ends on
\* the provider's response
get_lat_lng_body(state, location_description, r) ==
    IF state.geo_api_key = None
    THEN [called |-> << >>, outcome |-> "return",
          value |-> [lat |-> 511, lng |-> -1]]
    ELSE LET url == <<"https://api.mapbox.com/geocoding/v5/mapbox.places/">>
                    \o quote(location_description) \o <<".json">>
             get == [url |-> url, params |-> [access_token |-> state.geo_api_key]]
         IN  IF ~is_success(r.status)
             THEN [called |-> <<get>>, outcome |-> "raise", value |-> "HTTPStatusError"]
             ELSE IF ~r.body.json
             THEN [called |-> <<get>>, outcome |-> "raise", value |-> "JSONDecodeError"]
             ELSE IF "features" \notin DOMAIN r.body.data
             THEN [called |-> <<get>>, outcome |-> "raise", value |-> "KeyError"]
             ELSE IF r.body.data.features # << >>
             THEN [called |-> <<get>>, outcome |-> "return",
                   value |-> coordinates(r.body.data.features[1].center)]
             ELSE [called |-> <<get>>, outcome |-> "raise", value |-> "ModelRetry"]

\* a tool call that reads the state and talks to a provider: the response is
\* consumed only when a call was made
Returned(r, tool, args, resp, result) ==
    [req |-> r, tool |-> tool, args |-> args,
     resp |-> IF result.called = << >> THEN [status |-> 0] ELSE resp,
     called |-> result.called, outcome |-> result.outcome, value |-> result.value]

get_lat_lng(r, location_description, resp) ==
    /\ Running(r)
    /\ ret' = Returned(r, "get_lat_lng", [location_description |-> location_description],
                       resp, get_lat_lng_body(deps[r].state, location_description, resp))
    /\ UNCHANGED <<env, deps, lists, events, hist, shown>>

---------------------------------------------------------------------------
(* Tools: weather                                                          *)

code_lookup ==
    (1000 :> "Clear, Sunny") @@ (1100 :> "Mostly Clear") @@ (1101 :> "Partly Cloudy")
    @@ (1102 :> "Mostly Cloudy") @@ (1001 :> "Cloudy") @@ (2000 :> "Fog")
    @@ (2100 :> "Light Fog") @@ (4000 :> "Drizzle") @@ (4001 :> "Rain")
    @@ (4200 :> "Light Rain") @@ (4201 :> "Heavy Rain") @@ (5000 :> "Snow")
    @@ (5001 :> "Flurries") @@ (5100 :> "Light Snow") @@ (5101 :> "Heavy Snow")
    @@ (6000 :> "Freezing Drizzle") @@ (6001 :> "Freezing Rain")
    @@ (6200 :> "Light Freezing Rain") @@ (6201 :> "Heavy Freezing Rain")
    @@ (7000 :> "Ice Pellets") @@ (7101 :> "Heavy Ice Pellets")
    @@ (7102 :> "Light Ice Pellets") @@ (8000 :> "Thunderstorm")

\* dict.get(key) with no default given
get_or_none(table, key, default) == IF key \in DOMAIN table THEN table[key] ELSE None

\* dict.get(key, default)
get(table, key, default) == IF key \in DOMAIN table THEN table[key] ELSE default

\* format(x, "0.0f") of a number given in tenths: no decimals, ties to the
\* even integer, and the sign kept when a negative number rounds to zero
format_0f(tenths) ==
    LET a == IF tenths < 0 THEN -tenths ELSE tenths
        q == a \div 10
        rem == a % 10
        n == IF rem > 5 \/ (rem = 5 /\ q % 2 = 1) THEN q + 1 ELSE q
    IN  (IF tenths < 0 THEN "-" ELSE "") \o ToString(n)

\* the body of get_weather
get_weather_body(state, lat, lng, r) ==
    IF state.weather_api_key = None
    THEN [called |-> << >>, outcome |-> "return",
          value |-> [temperature |-> "21 °C", description |-> "Sunny"]]
    ELSE LET params == [apikey |-> state.weather_api_key, location |-> <<lat, lng>>,
                        units |-> "metric"]
             call == [url |-> <<"https://api.tomorrow.io/v4/weather/realtime">>,
                      params |-> params]
         IN  IF ~is_success(r.status)
             THEN [called |-> <<call>>, outcome |-> "raise", value |-> "HTTPStatusError"]
             ELSE IF ~r.body.json
             THEN [called |-> <<call>>, outcome |-> "raise", value |-> "JSONDecodeError"]
             ELSE IF \/ "data" \notin DOMAIN r.body.data
                     \/ "values" \notin DOMAIN r.body.data.data
                     \/ "temperatureApparent" \notin DOMAIN r.body.data.data.values
                     \/ "weatherCode" \notin DOMAIN r.body.data.data.values
             THEN [called |-> <<call>>, outcome |-> "raise", value |-> "KeyError"]
             ELSE LET values == r.body.data.data.values
                  IN  [called |-> <<call>>, outcome |-> "return",
                       value |-> [temperature |-> format_0f(values.temperatureApparent) \o "°C",
                                  description |-> get(code_lookup, values.weatherCode, "Unknown")]]

get_weather(r, lat, lng, resp) ==
    /\ Running(r)
    /\ ret' = Returned(r, "get_weather", [lat |-> lat, lng |-> lng],
                       resp, get_weather_body(deps[r].state, lat, lng, resp))
    /\ UNCHANGED <<env, deps, lists, events, hist, shown>>

---------------------------------------------------------------------------
(* Tools: web search                                                       *)

\* the value of a parameter: what the caller passed, or the signature's default
Param(args, name, default) == IF name \in DOMAIN args THEN args[name] ELSE default

\* the keyword arguments with time_range passed on whatever it is
search_kwargs_all(search_deep, topic, time_range) ==
    [search_depth |-> search_deep, topic |-> topic, time_range |-> time_range]

\* search_kwargs: depth and topic always, time_range when it is not None
search_kwargs(search_deep, topic, time_range) ==
    IF time_range # None
    THEN [search_depth |-> search_deep, topic |-> topic, time_range |-> time_range]
    ELSE [search_depth |-> search_deep, topic |-> topic]

ResultFields == {"title", "url", "content", "score"}

\* tavily_search_ta.validate_python: every result needs the four fields, and
\* only those are kept
validate_python(results) ==
    IF \A i \in 1..Len(results) : ResultFields \subseteq DOMAIN results[i]
    THEN [outcome |-> "return",
          value |-> [i \in 1..Len(results) |-> [k \in ResultFields |-> results[i][k]]]]
    ELSE [outcome |-> "raise", value |-> "ValidationError"]

\* the body of tavily_search_tool: no key is looked at, the client is called
tavily_search_tool_body(state, args, r) ==
    LET kwargs == search_kwargs(Param(args, "search_deep", "basic"),
                                Param(args, "topic", "general"),
                                Param(args, "time_range", None))
        call == [client |-> state.tavily_client, query |-> args.query, kwargs |-> kwargs]
    IN  IF "results" \notin DOMAIN r.body.data
        THEN [called |-> <<call>>, outcome |-> "raise", value |-> "KeyError"]
        ELSE [called |-> <<call>>] @@ validate_python(r.body.data.results)

tavily_search_tool(r, args, resp) ==
    /\ Running(r)
    /\ ret' = Returned(r, "tavily_search_tool", args, resp,
                       tavily_search_tool_body(deps[r].state, args, resp))
    /\ UNCHANGED <<env, deps, lists, events, hist, shown>>

---------------------------------------------------------------------------
(* Tools: the date                                                         *)

\* a number in at least `width` digits, zero-padded (%m, %d, %H, %M, %S, %Y)
Pad(n, width) ==
    LET digits == ToString(n)
    IN  IF width = 2 /\ n < 10 THEN "0" \o digits
        ELSE IF width = 4 /\ n < 10 THEN "000" \o digits
        ELSE IF width = 4 /\ n < 100 THEN "00" \o digits
        ELSE IF width = 4 /\ n < 1000 THEN "0" \o digits
        ELSE digits

\* strftime("%Y-%m-%d %H:%M:%S")
strftime(now) ==
    Pad(now.year, 4) \o "-" \o Pad(now.month, 2) \o "-" \o Pad(now.day, 2) \o " "
    \o Pad(now.hour, 2) \o ":" \o Pad(now.minute, 2) \o ":" \o Pad(now.second, 2)

get_current_date(r, now) ==
    /\ Running(r)
    /\ ret' = [req |-> r, tool |-> "get_current_date", outcome |-> "return",
               value |-> strftime(now)]
    /\ UNCHANGED <<env, deps, lists, events, hist, shown>>

---------------------------------------------------------------------------
(* Inputs: what callers pass and what the providers answer                 *)

Restrict(f, D) == [k \in D |-> f[k]]

Statuses == {200, 204, 302, 404, 500}

Locations == {<<"a">>, <<"a", " ", "b">>, <<"a", "/", "?">>}

Feature(lng, lat) == [center |-> <<lng, lat>>]

GeoBodies ==
    {[json |-> FALSE],
     [json |-> TRUE, data |-> [message |-> "Not Found"]],
     [json |-> TRUE, data |-> [features |-> << >>]],
     [json |-> TRUE, data |-> [features |-> <<Feature(-1, 515)>>]],
     [json |-> TRUE, data |-> [features |-> <<Feature(1394, 357), Feature(-1, 515)>>]]}

GeoResponses == [status : Statuses, body : GeoBodies]

\* every response for one location, every location for one response
GeoCalls ==
    ({<<"a", " ", "b">>} \X GeoResponses)
    \cup (Locations \X {[status |-> 200,
                          body |-> [json |-> TRUE,
                                    data |-> [features |-> <<Feature(-1, 515)>>]]]})

Latitudes == {511, 1000}
Longitudes == {-1}

WeatherCodes == DOMAIN code_lookup \cup {0, 1103, 9999}
Temperatures == {176, 25, -4}

Reading(t, c) ==
    [json |-> TRUE,
     data |-> [data |-> [values |-> [temperatureApparent |-> t, weatherCode |-> c]]]]

\* every code at one temperature, every temperature at one code, and the
\* bodies that are not a reading
WeatherBodies ==
    {[json |-> FALSE],
     [json |-> TRUE, data |-> [code |-> 400001]],
     [json |-> TRUE, data |-> [data |-> [values |-> [temperatureApparent |-> 176]]]]}
    \cup {Reading(176, c) : c \in WeatherCodes}
    \cup {Reading(t, 4001) : t \in Temperatures}

WeatherResponses ==
    [status : {200}, body : WeatherBodies]
    \cup [status : Statuses \ {200}, body : {[json |-> FALSE], Reading(176, 4001)}]

\* every response at one place, every place for one response
WeatherCalls ==
    ({<<511, -1>>} \X WeatherResponses)
    \cup ((Latitudes \X Longitudes) \X {[status |-> 200, body |-> Reading(176, 4001)]})

SearchArgs ==
    {Restrict(full, D \cup {"query"}) :
        full \in [query : {"q"}, search_deep : {"basic", "advanced"},
                  topic : {"general", "news"}, time_range : {None, "day", "year"}],
        D \in SUBSET {"search_deep", "topic", "time_range"}}

Hit == [title |-> "t", url |-> "u", content |-> "c", score |-> 9]

SearchBodies ==
    {[json |-> TRUE, data |-> [answer |-> "a"]],
     [json |-> TRUE, data |-> [results |-> << >>]],
     [json |-> TRUE, data |-> [results |-> <<Hit @@ [raw_content |-> "r"]>>]],
     [json |-> TRUE, data |-> [results |-> <<Hit, [title |-> "t", url |-> "u"]>>]]}

SearchResponses == [status : {200}, body : SearchBodies]

\* every argument list for one response, every response for one argument list
SearchCalls ==
    (SearchArgs \X {[status |-> 200, body |-> [json |-> TRUE, data |-> [results |-> <<Hit>>]]]})
    \cup ({[query |-> "q"]} \X SearchResponses)

Clock ==
    {[year |-> 2026, month |-> 1, day |-> 5, hour |-> 9, minute |-> 3, second |-> 7],
     [year |-> 1999, month |-> 12, day |-> 31, hour |-> 23, minute |-> 59, second |-> 59]}

---------------------------------------------------------------------------
(* Two requests in flight, each calling the proverb tools                  *)

Next ==
    \/ \E r \in Requests : run_agent(r)
    \/ \E r \in Requests : request_done(r)
    \/ \E r \in Requests : get_proverbs(r)
    \/ \E r \in Requests, p \in AddArgs : add_proverbs(r, p)
    \/ \E r \in Requests, p \in SetArgs : set_proverbs(r, p)

Spec == Init /\ [][Next]_vars

(* One request calling every tool, over every input above                  *)

NextTools ==
    \/ run_agent(1)
    \/ request_done(1)
    \/ get_proverbs(1)
    \/ \E p \in AddArgs : add_proverbs(1, p)
    \/ \E p \in AddArgs : set_proverbs(1, p)
    \/ \E c \in GeoCalls : get_lat_lng(1, c[1], c[2])
    \/ \E c \in WeatherCalls : get_weather(1, c[1][1], c[1][2], c[2])
    \/ \E c \in SearchCalls : tavily_search_tool(1, c[1], c[2])
    \/ \E now \in Clock : get_current_date(1, now)

SpecTools == Init /\ [][NextTools]_vars

---------------------------------------------------------------------------
(* Properties                                                              *)

Range(seq) == {seq[i] : i \in 1..Len(seq)}

IsCall(tool) == ret.tool = tool /\ Running(ret.req)

\* the proverbs the calls of request r have passed in so far
Supplied(r) == UNION {Range(hist[r][i].arg) : i \in 1..Len(hist[r])}

\* C1: of two requests in flight, neither's proverb list is the other's list
\* object, and the list a request reads (get_proverbs, its snapshots) holds
\* only proverbs its own add_proverbs / set_proverbs calls passed in
C1_NoCrossRequestLeak ==
    \A r \in Requests : Running(r) =>
        /\ \A q \in Requests \ {r} :
              Running(q) => deps[q].state.proverbs # deps[r].state.proverbs
        /\ Range(Proverbs(r)) \subseteq Supplied(r)
        /\ \A i \in 1..Len(events[r]) :
              /\ events[r][i].snapshot = r
              /\ Range(Payload(events[r][i]).proverbs) \subseteq Supplied(r)
        /\ (ret.tool = "get_proverbs" /\ ret.req = r) =>
              Range(lists[ret.value]) \subseteq Supplied(r)

C1_Witness ==
    /\ Running(1) /\ Running(2)
    /\ Proverbs(1) = <<"a">> /\ Proverbs(2) = <<"", "a", "", "a">>
    /\ ret.tool = "get_proverbs" /\ ret.req = 1

\* the position of the most recent set_proverbs call in a history, or 0
LastSet(h) ==
    LET sets == {i \in 1..Len(h) : h[i].op = "set"}
    IN  IF sets = {} THEN 0 ELSE CHOOSE i \in sets : \A j \in sets : j <= i

\* the arguments of the calls after position `from`, concatenated in call order
Later(h, from) ==
    LET F[i \in from..Len(h)] == IF i = from THEN << >> ELSE F[i - 1] \o h[i].arg
    IN  F[Len(h)]

\* what the claim says the list is after the calls of history h
Claimed(h) ==
    (IF LastSet(h) = 0 THEN << >> ELSE h[LastSet(h)].arg) \o Later(h, LastSet(h))

\* C2: within a request the list, and what get_proverbs returns, is the
\* argument of the most recent set_proverbs (or empty) followed by the
\* arguments of all later add_proverbs in call order, nothing dropped
C2_ListIsSetThenAdds ==
    \A r \in Requests : Running(r) =>
        /\ Proverbs(r) = Claimed(hist[r])
        /\ (ret.tool = "get_proverbs" /\ ret.req = r) =>
              lists[ret.value] = Claimed(hist[r])

C2_Witness ==
    /\ ret.tool = "get_proverbs"
    /\ hist[ret.req] = <<[op |-> "add", arg |-> <<"", "a">>], [op |-> "add", arg |-> <<"a">>]>>
    /\ lists[ret.value] = <<"", "a", "a">>

\* C3: add_proverbs and set_proverbs return a state-snapshot event whose
\* payload is the proverb list after the call, and nothing but that list
C3_SnapshotIsProverbList ==
    (IsCall("add_proverbs") \/ IsCall("set_proverbs")) =>
        /\ ret.value.type = "STATE_SNAPSHOT"
        /\ Payload(ret.value).proverbs = Claimed(hist[ret.req])
        /\ DOMAIN Payload(ret.value) = {"proverbs"}

\* C4: a step that is not an add_proverbs or set_proverbs call of a request
\* (so every call of the other five tools, returning or raising) leaves
\* that request's proverb list as it was
C4_OnlyAddAndSetWrite ==
    [][\A r \in Requests :
          (Running(r) /\ Running(r)' /\ hist'[r] = hist[r]) =>
              /\ deps'[r].state.proverbs = deps[r].state.proverbs
              /\ Proverbs(r)' = Proverbs(r)]_vars

C4_Witness ==
    /\ IsCall("get_lat_lng") /\ ret.outcome = "raise"
    /\ Proverbs(ret.req) = <<"a", "", "a">>

WeatherKeyAbsent == deps[ret.req].state.weather_api_key = None

\* C5: with no weather key get_weather returns exactly 21°C and Sunny, for
\* every latitude and longitude, and calls no provider
C5_FallbackReading ==
    (IsCall("get_weather") /\ WeatherKeyAbsent) =>
        /\ ret.outcome = "return"
        /\ ret.value = [temperature |-> "21°C", description |-> "Sunny"]
        /\ ret.called = << >>

Labels == {code_lookup[c] : c \in DOMAIN code_lookup}

\* C6 as stated: on every path the description of a returned Weather Result
\* is one of the 23 labels of the table or "Unknown"
C6_DescriptionInTable ==
    (IsCall("get_weather") /\ ret.outcome = "return") =>
        ret.value.description \in Labels \cup {"Unknown"}

IsReading(body) ==
    /\ body.json
    /\ "data" \in DOMAIN body.data
    /\ DOMAIN body.data.data.values = {"temperatureApparent", "weatherCode"}

\* C6 amended: with a weather key the description is one of the 23 labels or
\* "Unknown", and a code outside the table gives "Unknown", not an error;
\* with no weather key the description is the canned "Sunny", which is not
\* a label of the table
C6_DescriptionInTableOrCanned ==
    /\ Cardinality(Labels) = 23
    /\ "Sunny" \notin Labels
    /\ IsCall("get_weather") =>
        /\ WeatherKeyAbsent =>
              ret.outcome = "return" /\ ret.value.description = "Sunny"
        /\ (~WeatherKeyAbsent /\ ret.outcome = "return") =>
              ret.value.description \in Labels \cup {"Unknown"}
        /\ (~WeatherKeyAbsent /\ is_success(ret.resp.status) /\ IsReading(ret.resp.body)
              /\ ret.resp.body.data.data.values.weatherCode \notin DOMAIN code_lookup) =>
              ret.outcome = "return" /\ ret.value.description = "Unknown"

C6_Witness ==
    /\ IsCall("get_weather") /\ ~WeatherKeyAbsent
    /\ IsReading(ret.resp.body)
    /\ ret.resp.body.data.data.values.weatherCode = 9999
    /\ ret.outcome = "return" /\ ret.value.description = "Unknown"

HasFeatures(body) == body.json /\ "features" \in DOMAIN body.data

\* C7: with a geocoding key, a non-success status raises the transport
\* error whatever the body holds; a success with no features raises the
\* retryable signal; a success with features returns the first one as
\* lat = center[1], lng = center[0] (counting from 0); one provider call each
C7_GeocodingOutcomes ==
    (IsCall("get_lat_lng") /\ deps[ret.req].state.geo_api_key # None) =>
        LET status == ret.resp.status
            body == ret.resp.body
        IN  /\ Len(ret.called) = 1
            /\ ~is_success(status) =>
                  ret.outcome = "raise" /\ ret.value = "HTTPStatusError"
            /\ (is_success(status) /\ HasFeatures(body) /\ body.data.features = << >>) =>
                  ret.outcome = "raise" /\ ret.value = "ModelRetry"
            /\ (is_success(status) /\ HasFeatures(body) /\ body.data.features # << >>) =>
                  /\ ret.outcome = "return"
                  /\ ret.value = [lat |-> body.data.features[1].center[2],
                                  lng |-> body.data.features[1].center[1]]
            /\ (ret.outcome = "raise" /\ ret.value = "ModelRetry") =>
                  is_success(status) /\ HasFeatures(body) /\ body.data.features = << >>

C7_Witness ==
    /\ IsCall("get_lat_lng")
    /\ ret.resp.status = 404 /\ HasFeatures(ret.resp.body)
    /\ ret.resp.body.data.features = << >>
    /\ ret.outcome = "raise" /\ ret.value = "HTTPStatusError"

KeyOf(tool) ==
    CASE tool = "get_lat_lng" -> deps[ret.req].state.geo_api_key
      [] tool = "get_weather" -> deps[ret.req].state.weather_api_key
      [] tool = "tavily_search_tool" -> deps[ret.req].state.tavily_api_key

ProviderTools == {"get_lat_lng", "get_weather", "tavily_search_tool"}

\* C8: whichever of the three keys are set, a provider tool whose key is
\* absent returns a canned result, calls no provider and raises nothing;
\* for geocoding the canned result is lat 51.1, lng -0.1 for every text
C8_AbsentKeyMeansFallback ==
    (ret.tool \in ProviderTools /\ Running(ret.req) /\ KeyOf(ret.tool) = None) =>
        /\ ret.called = << >>
        /\ ret.outcome = "return"
        /\ ret.tool = "get_lat_lng" => ret.value = [lat |-> 511, lng |-> -1]

Sent == ret.called[1].kwargs

\* C9 as stated: each of depth, topic and recency filter is sent to the
\* search provider if and only if the caller passed it; the query always
C9_OnlySuppliedOptionals ==
    IsCall("tavily_search_tool") =>
        /\ ret.called[1].query = ret.args.query
        /\ "search_depth" \in DOMAIN Sent <=> "search_deep" \in DOMAIN ret.args
        /\ "topic" \in DOMAIN Sent <=> "topic" \in DOMAIN ret.args
        /\ "time_range" \in DOMAIN Sent <=> "time_range" \in DOMAIN ret.args

\* C9 amended: the query, the depth and the topic are always sent, the depth
\* and the topic as "basic" and "general" when the caller omitted them; the
\* recency filter is sent if and only if the caller passed one that is not
\* None, and then as passed
C9_DepthAndTopicAlwaysSent ==
    IsCall("tavily_search_tool") =>
        /\ Len(ret.called) = 1
        /\ ret.called[1].query = ret.args.query
        /\ {"search_depth", "topic"} \subseteq DOMAIN Sent
        /\ DOMAIN Sent \subseteq {"search_depth", "topic", "time_range"}
        /\ Sent.search_depth = Param(ret.args, "search_deep", "basic")
        /\ Sent.topic = Param(ret.args, "topic", "general")
        /\ "time_range" \in DOMAIN Sent <=>
              ("time_range" \in DOMAIN ret.args /\ ret.args.time_range # None)
        /\ "time_range" \in DOMAIN Sent => Sent.time_range = ret.args.time_range

C9_Witness ==
    /\ IsCall("tavily_search_tool")
    /\ DOMAIN ret.args = {"query", "time_range"}
    /\ ret.args.time_range = None
    /\ Sent = [search_depth |-> "basic", topic |-> "general"]

\* C10: a snapshot that add_proverbs or set_proverbs has returned keeps
\* showing the proverb list as of that call, whatever is called later
C10_SnapshotKeepsItsList ==
    \A r \in Requests : Running(r) =>
        \A i \in 1..Len(events[r]) : Payload(events[r][i]).proverbs = shown[r][i]

===========================================================================
